---- MODULE Spec2Model ----
(***************************************************************************)
(* Offline-first task tracker: the synchronization engine (SyncService),   *)
(* the CRUD layer that feeds its queue (TaskService) and the two tables    *)
(* they share (Database: tasks, sync_queue).                               *)
(*                                                                         *)
(* The sync_queue row key that SyncService calls `id` is the primary key   *)
(* Database.addToSyncQueue generates, `${task_id}-${Date.now()}`; the      *)
(* model keeps it as the pair (task_id, ts).  SyncService's `operation`    *)
(* is the column Database calls `action`.  SyncService reaches the tables   *)
(* through db.query, modelled by the SQL text it passes.  The columns no   *)
(* operation reads back (tasks.last_synced_at, sync_queue.error) are left  *)
(* out, and so is the payload of an entry, whose content the engine never  *)
(* inspects: whether JSON.parse accepts it is decided when a batch is      *)
(* built.                                                                  *)
(*                                                                         *)
(* One sync() pass is split at its awaits: the queue read, each round trip *)
(* and the handling of each item of a response are separate steps, so the  *)
(* CRUD layer and the clock can interleave with a pass in flight.  A pass  *)
(* is started by POST /sync, behind its connectivity probe.                *)
(*                                                                         *)
(* Spec is the program with the batch size it is built with.  SpecCrash    *)
(* adds a process crash while a response is in hand; SpecBatching follows  *)
(* the batching loop of sync() round by round for any batch size.          *)
(***************************************************************************)
EXTENDS Integers, Sequences, FiniteSets, TLC

\* ---------------------------------------------------------------- bounds
NumTasks == 2          \* record identifiers 1..NumTasks
MaxTime == 2           \* the wall clock runs over 1..MaxTime
MaxMutations == 3      \* the CRUD layer makes at most this many mutations
MaxFailures == 4       \* no new pass starts once the queue records this many
                       \* failed attempts in all
MaxBatchSize == 3      \* batch-size settings -MaxBatchSize..MaxBatchSize
MaxBatches == 4        \* the batching loop is followed for this many rounds

\* ------------------------------------------------------ program constants
SYNC_BATCH_SIZE == 2
MAX_RETRY == 3

TaskIds == 1..NumTasks
Times == 1..MaxTime
LocalTitles == {"local"}
ServerTitle == "srv"
NoTask == [absent |-> TRUE]
NoData == [nodata |-> TRUE]

VARIABLES
  tasks,      \* table tasks: id -> row, or NoTask
  queue,      \* table sync_queue: its rows in insertion order
  now,        \* Date.now()
  nmut,       \* number of mutations the CRUD layer has made
  pc,         \* position of the sync request: "idle", "online" (probed,
              \* sync() not yet called), and in sync() "send", "results"
  batches,    \* sync(): the batches built from the queue read at the start
  cur,        \* sync(): index of the batch being processed
  results,    \* processBatch(): the operations of the request whose response
              \* item, if the remote sent one, is not handled yet
  bcount,     \* processBatch(): its local success / failed counters
  total,      \* sync(): the running success / failed totals
  size,       \* the batch size read from the environment at start-up
  idx,        \* sync(): the index i of the batching loop
  replay,     \* history: after a crash, the batches that were in flight and
              \* what the interrupted pass would have left, kept while a
              \* new pass replays them
  ev          \* history: what the last step did, and the SyncResult if it
              \* made sync() return

vars ==
  <<tasks, queue, now, nmut, pc, batches, cur, results, bcount, total, size, idx,
    replay, ev>>

\* ------------------------------------------------------------- sequences
Min(a, b) == IF a < b THEN a ELSE b

\* ------------------------------------------------------------ sync_queue
Key(e) == <<e.task_id, e.ts>>

\* Text order of `${task_id}-${ts}`: by record id, then by timestamp.
IdLess(a, b) ==
  \/ a.task_id < b.task_id
  \/ a.task_id = b.task_id /\ a.ts < b.ts

RECURSIVE InsertById(_, _)
InsertById(e, s) ==
  IF s = <<>> THEN <<e>>
  ELSE IF IdLess(e, Head(s)) THEN <<e>> \o s
       ELSE <<Head(s)>> \o InsertById(e, Tail(s))

RECURSIVE OrderById(_)
\* SELECT * FROM sync_queue ORDER BY id ASC
OrderById(q) ==
  IF q = <<>> THEN <<>> ELSE InsertById(Head(q), OrderById(Tail(q)))

RECURSIVE Failures(_)
\* Sum of retry_count over the queue.
Failures(q) ==
  IF q = <<>> THEN 0 ELSE Head(q).retry_count + Failures(Tail(q))

HasKey(q, k) == \E i \in 1..Len(q) : Key(q[i]) = k

\* Database.addToSyncQueue: INSERT with queue_id = `${id}-${Date.now()}`.
\* The primary key rejects a second row of the same record in the same
\* clock tick; DbAddOk tells whether the INSERT goes through.
DbAddOk(q, id, t) == ~HasKey(q, <<id, t>>)

DbAddToSyncQueue(q, id, action, t) ==
  Append(q, [task_id |-> id, ts |-> t, operation |-> action,
             retry_count |-> 0, permanent_fail |-> FALSE])

\* DELETE FROM sync_queue WHERE task_id=?
DeleteByTask(q, id) ==
  SelectSeq(q, LAMBDA e : e.task_id # id)

\* ----------------------------------------------------------------- tasks
NewTask(title, t) ==
  [title |-> title, is_deleted |-> FALSE, updated_at |-> t,
   sync_status |-> "pending", server_id |-> "none"]

\* TaskService.getTask: a missing or soft-deleted record reads as null.
GetTask(tk, id) ==
  IF tk[id] = NoTask \/ tk[id].is_deleted THEN NoTask ELSE tk[id]

\* { ...existing, ...updates }: the fields `updates` carries replace those
\* of `existing`.
Merge(existing, updates) ==
  [f \in DOMAIN existing |->
     IF f \in DOMAIN updates THEN updates[f] ELSE existing[f]]

\* TaskService.updateTask: the row it writes (existing is not null, not deleted).
UpdatedTask(existing, updates, t) ==
  [Merge(existing, updates) EXCEPT !.updated_at = t, !.sync_status = "pending"]

\* Outcome of a call that writes both tables and may throw.
Done(tk, q) == [tasks |-> tk, queue |-> q, threw |-> FALSE]
Threw(tk, q) == [tasks |-> tk, queue |-> q, threw |-> TRUE]

\* TaskService.updateTask(id, updates): null for a missing or soft-deleted
\* record; otherwise the row is rewritten as pending and a queue entry is
\* appended.  The row is written before the INSERT, so a rejected INSERT
\* leaves the row rewritten and raises.
TaskServiceUpdateTask(tk, q, id, updates, t) ==
  IF tk[id] = NoTask \/ tk[id].is_deleted THEN Done(tk, q)
  ELSE LET tk1 == [tk EXCEPT ![id] = UpdatedTask(tk[id], updates, t)]
       IN  IF DbAddOk(q, id, t)
           THEN Done(tk1, DbAddToSyncQueue(q, id, "update", t))
           ELSE Threw(tk1, q)

\* ----------------------------------------------------------- SyncService
\* resolveConflict with >= in place of >: the local copy would win a tie.
resolveConflictTieLocal(localTask, serverTask) ==
  IF localTask.updated_at >= serverTask.updated_at THEN localTask ELSE serverTask

\* resolveConflict: the local copy wins only with the strictly later timestamp.
resolveConflict(localTask, serverTask) ==
  IF localTask.updated_at > serverTask.updated_at THEN localTask ELSE serverTask

\* updateSyncStatus(taskId, "synced", serverData)
UpdateSyncStatusSynced(tk, q, id, serverData, t) ==
  LET tk1 == IF tk[id] = NoTask THEN tk
             ELSE [tk EXCEPT ![id].sync_status = "synced"]
      q1 == DeleteByTask(q, id)
  IN  IF serverData # NoData
      THEN TaskServiceUpdateTask(tk1, q1, id, serverData, t)
      ELSE Done(tk1, q1)

\* handleSyncError(item, error): UPDATE sync_queue ... WHERE id = item.id,
\* computed from the retry_count the pass read at its start.
HandleSyncError(q, item) ==
  LET retry == item.retry_count + 1
  IN  [i \in 1..Len(q) |->
         IF Key(q[i]) # Key(item) THEN q[i]
         ELSE IF retry >= MAX_RETRY
              THEN [q[i] EXCEPT !.retry_count = retry, !.permanent_fail = TRUE]
              ELSE [q[i] EXCEPT !.retry_count = retry]]

RECURSIVE FailAll(_, _)
\* sync(): the catch block, handleSyncError for every item of the batch.
FailAll(q, items) ==
  IF items = <<>> THEN q
  ELSE FailAll(HandleSyncError(q, Head(items)), Tail(items))

\* items.find((i) => i.task_id === res.taskId): the first item of the record.
FindItem(items, taskId) ==
  items[CHOOSE i \in 1..Len(items) :
          /\ items[i].task_id = taskId
          /\ \A j \in 1..(i - 1) : items[j].task_id # taskId]

\* sync(): queue.slice(i, i + SYNC_BATCH_SIZE) for i = 0, SYNC_BATCH_SIZE, ...
Batches(q) ==
  [b \in 1..((Len(q) + SYNC_BATCH_SIZE - 1) \div SYNC_BATCH_SIZE) |->
     SubSeq(q, (b - 1) * SYNC_BATCH_SIZE + 1, Min(b * SYNC_BATCH_SIZE, Len(q)))]

\* processBatch(): the handling of one response item, as the writes it makes,
\* whether it raised, and the counter it bumps.
HandleOne(tk, q, items, res, t) ==
  LET item == FindItem(items, res.taskId)
  IN  CASE res.status = "none" ->
             [out |-> Done(tk, q), count |-> "none"]
        [] res.status = "success" ->
             [out |-> UpdateSyncStatusSynced(tk, q, item.task_id, res.data, t),
              count |-> "success"]
        [] res.status = "conflict" ->
             LET local == GetTask(tk, item.task_id)
             IN  IF local = NoTask
                 THEN [out |-> Threw(tk, q), count |-> "none"]
                 ELSE LET resolved == resolveConflict(local, res.serverData)
                          upd == TaskServiceUpdateTask(tk, q, item.task_id, resolved, t)
                      IN  IF upd.threw
                          THEN [out |-> upd, count |-> "none"]
                          ELSE [out |-> UpdateSyncStatusSynced(
                                           upd.tasks, upd.queue, item.task_id, NoData, t),
                                count |-> "success"]
        [] OTHER ->
             [out |-> Done(tk, HandleSyncError(q, item)),
              count |-> "failed"]

\* ------------------------------------------------- the Remote Authority
\* What the remote can answer for one operation of a request: success with
\* or without authoritative data, conflict with its own version of the
\* record, failure, or no response item at all.  The response is read item
\* by item and nothing else depends on it, so each item's content is chosen
\* when the item is handled.
ServerTask(t) ==
  [title |-> ServerTitle, is_deleted |-> FALSE, updated_at |-> t,
   server_id |-> "srv"]

Outcomes ==
  {[status |-> "success", data |-> NoData],
   [status |-> "success", data |-> [server_id |-> "srv"]],
   [status |-> "failure"], [status |-> "none"]}
  \cup {[status |-> "conflict", serverData |-> ServerTask(t)] : t \in Times}

\* A remote that names the record of the first request item in every
\* response item.
ResultOfFirst(items, op, o) ==
  CASE o.status = "success" ->
         [taskId |-> items[1].task_id, status |-> "success", data |-> o.data,
          op |-> op]
    [] o.status = "conflict" ->
         [taskId |-> items[1].task_id, status |-> "conflict",
          serverData |-> o.serverData, op |-> op]
    [] o.status = "failure" ->
         [taskId |-> items[1].task_id, status |-> "failure", op |-> op]
    [] OTHER ->
         [taskId |-> items[1].task_id, status |-> "none", op |-> op]

\* The response item for operation op of the request; op is kept to tell
\* which request item the remote answered.
ResultOf(items, op, o) ==
  CASE o.status = "success" ->
         [taskId |-> items[op].task_id, status |-> "success", data |-> o.data,
          op |-> op]
    [] o.status = "conflict" ->
         [taskId |-> items[op].task_id, status |-> "conflict",
          serverData |-> o.serverData, op |-> op]
    [] o.status = "failure" ->
         [taskId |-> items[op].task_id, status |-> "failure", op |-> op]
    [] OTHER ->
         [taskId |-> items[op].task_id, status |-> "none", op |-> op]

\* ------------------------------------------------------------------ Init
NoCount == [success |-> 0, failed |-> 0]
NoResult == [none |-> TRUE]
NoReplay == [none |-> TRUE]

Init ==
  /\ tasks = [id \in TaskIds |-> NoTask]
  /\ queue = <<>>
  /\ now = 1
  /\ nmut = 0
  /\ pc = "idle"
  /\ batches = <<>>
  /\ cur = 0
  /\ results = <<>>
  /\ bcount = NoCount
  /\ total = NoCount
  /\ size = SYNC_BATCH_SIZE
  /\ idx = 0
  /\ replay = NoReplay
  /\ ev = [kind |-> "init", ret |-> NoResult]

syncVars == <<pc, batches, cur, results, bcount, total>>
loopVars == <<size, idx>>

\* ------------------------------------------------------------ CRUD layer
\* The clock advances.
Tick ==
  /\ now < MaxTime
  /\ now' = now + 1
  /\ ev' = [kind |-> "tick", ret |-> NoResult]
  /\ UNCHANGED <<tasks, queue, nmut, syncVars, loopVars, replay>>

\* TaskService.createTask: a fresh id, the row, then the queue entry.
CreateTask ==
  \E id \in TaskIds, title \in LocalTitles :
    /\ nmut < MaxMutations
    /\ nmut' = nmut + 1
    /\ tasks[id] = NoTask
    /\ tasks' = [tasks EXCEPT ![id] = NewTask(title, now)]
    /\ queue' = IF DbAddOk(queue, id, now)
                THEN DbAddToSyncQueue(queue, id, "create", now) ELSE queue
    /\ ev' = [kind |-> "create", ret |-> NoResult, task |-> id]
    /\ replay' = NoReplay
    /\ UNCHANGED <<now, syncVars, loopVars>>

\* TaskService.updateTask called by a user.
UpdateTask ==
  \E id \in TaskIds, title \in LocalTitles :
    /\ nmut < MaxMutations
    /\ nmut' = nmut + 1
    /\ GetTask(tasks, id) # NoTask
    /\ LET out == TaskServiceUpdateTask(tasks, queue, id, [title |-> title], now)
       IN  /\ tasks' = out.tasks
           /\ queue' = out.queue
           /\ ev' = [kind |-> "update", ret |-> NoResult, task |-> id]
    /\ replay' = NoReplay
    /\ UNCHANGED <<now, syncVars, loopVars>>

\* TaskService.deleteTask: soft delete of any stored row, then the queue entry.
DeleteTask ==
  \E id \in TaskIds :
    /\ nmut < MaxMutations
    /\ nmut' = nmut + 1
    /\ tasks[id] # NoTask
    /\ tasks' = [tasks EXCEPT ![id].is_deleted = TRUE, ![id].updated_at = now,
                              ![id].sync_status = "pending"]
    /\ queue' = IF DbAddOk(queue, id, now)
                THEN DbAddToSyncQueue(queue, id, "delete", now) ELSE queue
    /\ ev' = [kind |-> "delete", ret |-> NoResult, task |-> id]
    /\ replay' = NoReplay
    /\ UNCHANGED <<now, syncVars, loopVars>>

\* ---------------------------------------------------------------- sync()
\* Totals without `failed += result.failed`: failures are not added up.
TotalsSuccessOnly(count) ==
  [success |-> total.success + count.success, failed |-> total.failed]

\* sync() after a batch: add its counts, go on to the next batch or return.
Totals(count) ==
  [success |-> total.success + count.success,
   failed |-> total.failed + count.failed]

LastBatch == cur = Len(batches)

\* sync() with a catch block that lets the failure of its last batch escape:
\* no SyncResult when that batch counted a failure.
ReturnedUnlessFailed(count) ==
  IF LastBatch /\ count.failed = 0
  THEN [success |-> Totals(count).success, failed |-> Totals(count).failed,
        skipped |-> 0]
  ELSE NoResult

\* return { success, failed, skipped: 0 } once the last batch is done.
Returned(count) ==
  IF LastBatch
  THEN [success |-> Totals(count).success, failed |-> Totals(count).failed,
        skipped |-> 0]
  ELSE NoResult

NextBatch(count) ==
  /\ results' = <<>>
  /\ bcount' = NoCount
  /\ IF LastBatch
     THEN /\ pc' = "idle"
          /\ cur' = 0
          /\ batches' = <<>>
          /\ total' = NoCount
     ELSE /\ pc' = "send"
          /\ cur' = cur + 1
          /\ total' = Totals(count)
          /\ UNCHANGED batches

\* POST /sync with the gate left out: sync() is reached whatever the probe
\* returned.
TriggerNoGate(online) ==
  /\ pc = "idle"
  /\ Failures(queue) < MaxFailures
  /\ pc' = "online"
  /\ ev' = [kind |-> "probe", ret |-> NoResult, online |-> online]
  /\ UNCHANGED <<tasks, queue, now, nmut, batches, cur, results, bcount, total,
               loopVars, replay>>

\* POST /sync up to the call of sync(): checkConnectivity() returns `online`;
\* offline, the handler answers 503 and is done.
Trigger(online) ==
  /\ pc = "idle"
  /\ Failures(queue) < MaxFailures
  /\ IF online
     THEN /\ pc' = "online"
          /\ ev' = [kind |-> "probe", ret |-> NoResult, online |-> TRUE]
     ELSE /\ pc' = "idle"
          /\ ev' = [kind |-> "probe", ret |-> NoResult, online |-> FALSE,
                    http |-> 503]
  /\ UNCHANGED <<tasks, queue, now, nmut, batches, cur, results, bcount, total,
               loopVars, replay>>

SyncTrigger == \E online \in BOOLEAN : Trigger(online)

\* sync(): the queue read; an empty queue returns zero counts at once.
SyncStart ==
  /\ pc = "online"
  /\ IF queue = <<>>
     THEN /\ ev' = [kind |-> "start",
                   ret |-> [success |-> 0, failed |-> 0, skipped |-> 0]]
          /\ pc' = "idle"
          /\ UNCHANGED <<batches, cur>>
     ELSE /\ batches' = Batches(OrderById(queue))
          /\ cur' = 1
          /\ pc' = "send"
          /\ ev' = [kind |-> "start", ret |-> NoResult]
  /\ replay' = IF replay # NoReplay /\ Batches(OrderById(queue)) = replay.batches
               THEN replay ELSE NoReplay
  /\ UNCHANGED <<tasks, queue, now, nmut, results, bcount, total, loopVars>>

\* processBatch(): the round trip succeeds and the response arrives.
SendBatch ==
  /\ pc = "send"
  /\ results' = [op \in 1..Len(batches[cur]) |-> op]
  /\ pc' = "results"
  /\ ev' = [kind |-> "send", ret |-> NoResult]
  /\ UNCHANGED <<batches, cur, bcount, total>>
  /\ UNCHANGED <<tasks, queue, now, nmut, loopVars, replay>>

\* processBatch(): the round trip fails; sync() fails every item of the batch.
TransportFail ==
  /\ pc = "send"
  /\ queue' = FailAll(queue, batches[cur])
  /\ ev' = [kind |-> "transport",
            ret |-> Returned([success |-> 0, failed |-> Len(batches[cur])])]
  /\ NextBatch([success |-> 0, failed |-> Len(batches[cur])])
  /\ replay' = NoReplay
  /\ UNCHANGED <<tasks, now, nmut, loopVars>>

\* processBatch() raises before it handles any response item, for the reason
\* `kind`; sync() fails every item of the batch.
FailBatch(kind) ==
  /\ pc = "send"
  /\ queue' = FailAll(queue, batches[cur])
  /\ ev' = [kind |-> kind,
            ret |-> Returned([success |-> 0, failed |-> Len(batches[cur])])]
  /\ NextBatch([success |-> 0, failed |-> Len(batches[cur])])
  /\ replay' = NoReplay
  /\ UNCHANGED <<tasks, now, nmut, loopVars>>

\* processBatch(): JSON.parse raises on the payload of an entry while the
\* request is built; nothing is sent.
UnparsablePayload == FailBatch("payload")

\* processBatch(): the round trip succeeds but the response body has no list
\* of results to iterate over.
MalformedResponse == FailBatch("response")

\* processBatch(): one response item is handled.  If the handling raises,
\* processBatch() is abandoned with its counts and sync() fails every item
\* of the batch.
HandleResult ==
  /\ pc = "results"
  /\ results # <<>>
  /\ \E o \in Outcomes :
     LET res == ResultOf(batches[cur], Head(results), o)
         h == HandleOne(tasks, queue, batches[cur], res, now)
         cnt == [success |-> bcount.success + (IF h.count = "success" THEN 1 ELSE 0),
                 failed |-> bcount.failed + (IF h.count = "failed" THEN 1 ELSE 0)]
         failAll == [success |-> 0, failed |-> Len(batches[cur])]
         replaying == /\ replay # NoReplay
                      /\ o.status = "success"
                      /\ o.data = replay.data
         step(ret) == [kind |-> "result", ret |-> ret, res |-> res,
                       threw |-> h.out.threw,
                       local |-> GetTask(tasks, res.taskId),
                       replayed |-> replaying /\ ret # NoResult]
     IN  /\ tasks' = h.out.tasks
         /\ replay' = IF replaying /\ ~(Len(results) = 1 /\ LastBatch)
                       THEN replay ELSE NoReplay
         /\ IF h.out.threw
            THEN /\ queue' = FailAll(h.out.queue, batches[cur])
                 /\ NextBatch(failAll)
                 /\ ev' = step(Returned(failAll))
            ELSE /\ queue' = h.out.queue
                 /\ IF Len(results) = 1
                    THEN /\ NextBatch(cnt)
                         /\ ev' = step(Returned(cnt))
                    ELSE /\ results' = Tail(results)
                         /\ bcount' = cnt
                         /\ ev' = step(NoResult)
                         /\ UNCHANGED <<pc, batches, cur, total>>
  /\ UNCHANGED <<now, nmut, loopVars>>

Next ==
  \/ Tick
  \/ CreateTask
  \/ UpdateTask
  \/ DeleteTask
  \/ SyncTrigger
  \/ SyncStart
  \/ SendBatch
  \/ TransportFail
  \/ UnparsablePayload
  \/ MalformedResponse
  \/ HandleResult

Spec == Init /\ [][Next]_vars

\* ------------------------------------------------- crash and replay
\* The process stops while a pass is in flight and is started again: what
\* sync() held in memory is gone, the two tables are as they were.
SuccessData == {NoData, [server_id |-> "srv"]}

RECURSIVE AcceptItems(_, _, _, _, _, _)
\* processBatch() from item op on, the remote answering success with `data`
\* for every item: the tables it leaves.
AcceptItems(tk, q, items, op, data, t) ==
  IF op > Len(items) THEN Done(tk, q)
  ELSE LET res == [taskId |-> items[op].task_id, status |-> "success",
                   data |-> data, op |-> op]
           h == HandleOne(tk, q, items, res, t)
       IN  AcceptItems(h.out.tasks, h.out.queue, items, op + 1, data, t)

RECURSIVE AcceptAll(_, _, _, _, _)
\* sync() over the batches bs, every item answered success with `data`.
AcceptAll(tk, q, bs, data, t) ==
  IF bs = <<>> THEN Done(tk, q)
  ELSE LET out == AcceptItems(tk, q, Head(bs), 1, data, t)
       IN  AcceptAll(out.tasks, out.queue, Tail(bs), data, t)

\* The process dies after the response to a batch has arrived and before
\* any of its items is handled.  The history variable keeps the batches the
\* pass still had to handle and the tables it would have left, had the
\* remote answered success with `data` for all of them.
Crash ==
  /\ pc = "results"
  /\ Len(results) = Len(batches[cur])
  /\ replay = NoReplay
  /\ \E data \in SuccessData :
       replay' = [batches |-> SubSeq(batches, cur, Len(batches)),
                  data |-> data,
                  expect |-> AcceptAll(tasks, queue,
                                       SubSeq(batches, cur, Len(batches)),
                                       data, now)]
  /\ pc' = "idle"
  /\ batches' = <<>>
  /\ cur' = 0
  /\ results' = <<>>
  /\ bcount' = NoCount
  /\ total' = NoCount
  /\ ev' = [kind |-> "crash", ret |-> NoResult]
  /\ UNCHANGED <<tasks, queue, now, nmut, loopVars>>

NextCrash == Next \/ Crash

SpecCrash == Init /\ [][NextCrash]_vars

\* ------------------------------------------- sync() under any batch size
\* The batching loop of sync() followed round by round, for the batch sizes
\* parseInt can read from the environment, over queues the CRUD layer can
\* have left.  The loop has no await, so nothing interleaves with it.
BatchSizes == (0 - MaxBatchSize)..MaxBatchSize

Max(a, b) == IF a > b THEN a ELSE b

\* Array.prototype.slice(from, to): a negative index counts from the end,
\* both are clamped to the array, and an empty range gives an empty array.
Slice(q, from, to) ==
  LET clamp(k) == IF k < 0 THEN Max(Len(q) + k, 0) ELSE Min(k, Len(q))
  IN  IF clamp(from) < clamp(to) THEN SubSeq(q, clamp(from) + 1, clamp(to))
      ELSE <<>>

\* Two records created in the first tick and the first one updated in the
\* second: the queue these mutations leave, or a prefix of it.
QueueOf(n) ==
  SubSeq(DbAddToSyncQueue(DbAddToSyncQueue(DbAddToSyncQueue(
           <<>>, 1, "create", 1), NumTasks, "create", 1), 1, "update", MaxTime),
         1, n)

TasksOf(n) ==
  [id \in TaskIds |->
     IF \E k \in 1..n : QueueOf(n)[k].task_id = id
     THEN NewTask("local", IF id = 1 /\ n = MaxMutations THEN MaxTime ELSE 1)
     ELSE NoTask]

BatchingInit ==
  /\ size \in BatchSizes
  /\ \E n \in 0..MaxMutations :
       /\ queue = QueueOf(n)
       /\ tasks = TasksOf(n)
       /\ nmut = n
  /\ now = MaxTime
  /\ pc = "online"
  /\ batches = <<>>
  /\ cur = 0
  /\ results = <<>>
  /\ bcount = NoCount
  /\ total = NoCount
  /\ idx = 0
  /\ replay = NoReplay
  /\ ev = [kind |-> "probe", ret |-> NoResult, online |-> TRUE]

\* sync(): the queue read; an empty queue returns zero counts at once,
\* otherwise the batching loop starts with i = 0.
ReadQueue ==
  /\ pc = "online"
  /\ IF queue = <<>>
     THEN /\ ev' = [kind |-> "start",
                   ret |-> [success |-> 0, failed |-> 0, skipped |-> 0]]
          /\ pc' = "idle"
     ELSE /\ ev' = [kind |-> "start", ret |-> NoResult]
          /\ pc' = "batching"
  /\ UNCHANGED <<tasks, queue, now, nmut, batches, cur, results, bcount, total,
                 loopVars, replay>>

\* for (...; i < queue.length; i += SYNC_BATCH_SIZE)
\*   batches.push(queue.slice(i, i + SYNC_BATCH_SIZE))
BatchingStep ==
  /\ pc = "batching"
  /\ idx < Len(queue)
  /\ Len(batches) < MaxBatches
  /\ batches' = Append(batches, Slice(OrderById(queue), idx, idx + size))
  /\ idx' = idx + size
  /\ ev' = [kind |-> "batch", ret |-> NoResult]
  /\ UNCHANGED <<tasks, queue, now, nmut, pc, cur, results, bcount, total, size,
                 replay>>

\* The loop condition fails: sync() goes on to its first batch.
BatchingDone ==
  /\ pc = "batching"
  /\ idx >= Len(queue)
  /\ pc' = "send"
  /\ cur' = 1
  /\ idx' = 0
  /\ ev' = [kind |-> "batched", ret |-> NoResult]
  /\ UNCHANGED <<tasks, queue, now, nmut, batches, results, bcount, total, size,
                 replay>>

NextBatching ==
  \/ ReadQueue
  \/ BatchingStep
  \/ BatchingDone
  \/ SendBatch
  \/ TransportFail
  \/ UnparsablePayload
  \/ MalformedResponse
  \/ HandleResult

SpecBatching == BatchingInit /\ [][NextBatching]_vars

\* ====================================================================
\* Properties
\* ====================================================================
\* The step just taken handled a response item (ev' describes it); Sent is
\* the request item the remote answered, Matched the item the code charges
\* the outcome to.
ResultStep == ev'.kind = "result"
Sent == batches[cur][ev'.res.op]
Matched == FindItem(batches[cur], ev'.res.taskId)
Accepting == ev'.res.status \in {"success", "conflict"}

\* A sync() pass has read the queue and has not returned yet.
InFlight == pc \in {"send", "results"}

\* The tallies of the pass before and after a step (the SyncResult once the
\* step made sync() return).
SuccessBefore == total.success + bcount.success
FailedBefore == total.failed + bcount.failed
SuccessAfter ==
  IF ev'.ret # NoResult THEN ev'.ret.success ELSE total'.success + bcount'.success
FailedAfter ==
  IF ev'.ret # NoResult THEN ev'.ret.failed ELSE total'.failed + bcount'.failed

EntriesOf(q, id) == {i \in 1..Len(q) : q[i].task_id = id}

\* The INSERT of a queue entry for record id cannot hit the key of an entry
\* made in the same clock tick.
NoClockClash(id) == ~HasKey(queue, <<id, now>>)

\* C1 (as claimed): a queue entry leaves the queue only in a step where the
\* remote's success or conflict outcome for that very entry is handled.
C1_RemovedOnlyOnOwnOutcome ==
  [][\A i \in 1..Len(queue) :
       ~HasKey(queue', Key(queue[i])) =>
         /\ ResultStep
         /\ Accepting
         /\ Key(Sent) = Key(queue[i])]_vars

\* C2 (as claimed), for entries of different batches: when the remote's
\* acceptance (success or conflict) of an entry e2 is handled and e2's
\* record is cleared from the queue, no entry of the same record that was
\* enqueued before e2 and sent in an earlier batch is still waiting.
C2_AcceptedInOrder ==
  [][(ResultStep /\ Accepting /\ ~ev'.threw) =>
       \A i \in EntriesOf(queue, Sent.task_id) :
         ~(/\ queue[i].ts < Sent.ts
           /\ \A k \in 1..Len(batches[cur]) :
                Key(batches[cur][k]) # Key(queue[i]))]_vars

\* C3 (as claimed): an entry that is permanently failed is in no batch of a
\* later pass, and no entry's retry_count ever exceeds MAX_RETRY.
C3_ExhaustedNotRetried ==
  /\ \A i \in 1..Len(queue) : queue[i].retry_count <= MAX_RETRY
  /\ \A b \in 1..Len(batches) : \A k \in 1..Len(batches[b]) :
       ~batches[b][k].permanent_fail

\* C4 (as claimed), for the outcome handled last in a pass: when sync()
\* returns right after a success outcome for a record, the record is synced
\* and the queue holds no entry of it.
C4_SuccessLeavesSynced ==
  [][(ResultStep /\ ev'.res.status = "success" /\ ev'.ret # NoResult) =>
       /\ tasks'[Sent.task_id].sync_status = "synced"
       /\ EntriesOf(queue', Sent.task_id) = {}]_vars

C6_ConflictResolved ==
  [][(ResultStep /\ ev'.res.status = "conflict" /\ NoClockClash(Sent.task_id)) =>
       /\ tasks'[Sent.task_id].sync_status = "synced"
       /\ ~HasKey(queue', Key(Sent))
       /\ SuccessAfter = SuccessBefore + 1
       /\ FailedAfter = FailedBefore]_vars

\* C7 (as claimed): when a failure outcome for a queued entry is handled,
\* that entry's retry_count grows by exactly 1, its permanent_fail is set
\* exactly when the new count reaches MAX_RETRY, and no other entry changes.
C7_FailureBookkeeping ==
  [][(ResultStep /\ ev'.res.status = "failure" /\ HasKey(queue, Key(Sent))) =>
       /\ Len(queue') = Len(queue)
       /\ \A i \in 1..Len(queue) :
            IF Key(queue[i]) = Key(Sent)
            THEN /\ queue'[i].retry_count = queue[i].retry_count + 1
                 /\ queue'[i].permanent_fail =
                      (queue[i].retry_count + 1 >= MAX_RETRY)
            ELSE queue'[i] = queue[i]]_vars

\* C8 (as claimed): when an entry takes the failure path (a failure outcome,
\* or a batch whose round trip failed), its record has sync_status error.
C8_FailureMarksError ==
  [][/\ (ResultStep /\ ev'.res.status = "failure") =>
          tasks'[Sent.task_id].sync_status = "error"
     /\ ev'.kind = "transport" =>
          \A k \in 1..Len(batches[cur]) :
            tasks'[batches[cur][k].task_id].sync_status = "error"]_vars

\* C9 (as claimed): when the round trip of a batch fails, every entry of the
\* batch is in the queue afterwards with the retry_count the pass read plus
\* one, and the failed tally grows by the size of the batch.
C9_TransportFailure ==
  [][ev'.kind = "transport" =>
       /\ \A k \in 1..Len(batches[cur]) :
            \E i \in 1..Len(queue') :
              /\ Key(queue'[i]) = Key(batches[cur][k])
              /\ queue'[i].retry_count = batches[cur][k].retry_count + 1
       /\ FailedAfter = FailedBefore + Len(batches[cur])
       /\ SuccessAfter = SuccessBefore]_vars

\* C10 (as claimed), where the entry's INSERT cannot clash: handling one
\* item of a delivered response never takes away a success already counted
\* and never touches the retry_count of an entry of another record.
C10_ItemsIsolated ==
  [][(ResultStep /\ NoClockClash(Sent.task_id)) =>
       /\ SuccessAfter >= SuccessBefore
       /\ \A i \in 1..Len(queue) :
            queue[i].task_id # Sent.task_id =>
              \E j \in 1..Len(queue') : queue'[j] = queue[i]]_vars

\* ------------------------------------------------------------ C11 .. C14
\* The step just taken was a mutation made by the CRUD layer.
Mutations == {"create", "update", "delete"}
MutationStep == ev'.kind \in Mutations

\* The last step was a CRUD mutation made while a pass was in flight, and
\* its entry is the last one of the queue.
EnqueuedInFlight ==
  /\ ev.kind \in Mutations
  /\ InFlight
  /\ queue # <<>>
  /\ Key(queue[Len(queue)]) = <<ev.task, now>>
  /\ queue[Len(queue)].operation = ev.kind

\* C11 (as claimed): an entry the CRUD layer appended while a pass was in
\* flight, and which is therefore in no batch of that pass, is still in the
\* queue after the next step of the pass.
C11_AppendedInFlightKept ==
  [][(EnqueuedInFlight /\ ~MutationStep) =>
       HasKey(queue', Key(queue[Len(queue)]))]_vars

\* C12 (as claimed): when the handling of an accepted outcome leaves a
\* record synced, the mutation the remote answered was the only one of that
\* record still waiting in the queue.
C12_SyncedMeansConfirmed ==
  [][(/\ ResultStep /\ Accepting /\ ~ev'.threw
      /\ tasks'[Sent.task_id] # NoTask
      /\ tasks'[Sent.task_id].sync_status = "synced") =>
       \A i \in EntriesOf(queue, Sent.task_id) :
         Key(queue[i]) = Key(Sent)]_vars

RECURSIVE Flatten(_)
\* The concatenation of batches in send order.
Flatten(bs) == IF bs = <<>> THEN <<>> ELSE Head(bs) \o Flatten(Tail(bs))

\* C13 (as claimed): the batches built at the start of a pass, concatenated
\* in send order, are the queue in insertion order; every batch has at most
\* SYNC_BATCH_SIZE entries and all but the last exactly SYNC_BATCH_SIZE.
C13_BatchesInInsertionOrder ==
  [][(ev'.kind = "start" /\ queue # <<>>) =>
       /\ Flatten(batches') = queue
       /\ \A b \in 1..Len(batches') :
            /\ Len(batches'[b]) <= SYNC_BATCH_SIZE
            /\ b < Len(batches') => Len(batches'[b]) = SYNC_BATCH_SIZE]_vars

\* C14 (as claimed): every mutation of the CRUD layer appends exactly one
\* entry for its record, with retry_count 0 and permanent_fail false, after
\* all existing entries, which it leaves as they are.
C14_OneEntryPerMutation ==
  [][MutationStep =>
       /\ Len(queue') = Len(queue) + 1
       /\ SubSeq(queue', 1, Len(queue)) = queue
       /\ queue'[Len(queue')].task_id = ev'.task
       /\ queue'[Len(queue')].retry_count = 0
       /\ ~queue'[Len(queue')].permanent_fail]_vars

\* ------------------------------------------------------------------- C18
\* The step just taken cleared the entries of a record on an accepted
\* outcome, so entry j of the queue it left, if of that record, is a new one.
Replaced(j) ==
  /\ ResultStep
  /\ Accepting
  /\ ~ev'.threw
  /\ queue'[j].task_id = Sent.task_id

\* C18 (as claimed): after every step, each queue entry is permanently
\* failed exactly when its retry_count is at least MAX_RETRY; an entry that
\* was in the queue before the step has the retry_count it had or one more,
\* and a new entry starts at 0.
C18_RetryBookkeeping ==
  [][\A j \in 1..Len(queue') :
       /\ queue'[j].permanent_fail <=> (queue'[j].retry_count >= MAX_RETRY)
       /\ IF Replaced(j) \/ ~HasKey(queue, Key(queue'[j]))
          THEN queue'[j].retry_count = 0
          ELSE \A i \in 1..Len(queue) :
                 Key(queue[i]) = Key(queue'[j]) =>
                   queue'[j].retry_count \in
                     {queue[i].retry_count, queue[i].retry_count + 1}]_vars

\* ------------------------------------------------------------------- C19
RECURSIVE Entries(_)
\* Number of entries in a sequence of batches.
Entries(bs) == IF bs = <<>> THEN 0 ELSE Len(Head(bs)) + Entries(Tail(bs))

\* The request items of the pass whose batch is done or whose response item
\* has been handled, and the items the pass has counted so far.
Handled ==
  Entries(SubSeq(batches, 1, cur - 1))
    + (IF pc = "results" THEN Len(batches[cur]) - Len(results) ELSE 0)
Tally == total.success + total.failed + bcount.success + bcount.failed

\* Every item handled so far in the pass in flight has been counted once: no
\* request item was left without an outcome.
TallyExact == InFlight /\ Tally = Handled

\* C19: as long as the remote leaves no request item without an outcome,
\* every item handled is counted once, as success or as failed, whatever the
\* outcomes and transport failures are; so when the pass returns,
\* success + failed is the number of entries read at its start and skipped
\* is 0.  A pass over an empty queue returns zero counts.
C19_CountAccounting ==
  [][/\ (ev'.kind = "start" /\ ev'.ret # NoResult) =>
          /\ ev'.ret.success + ev'.ret.failed = Len(queue)
          /\ ev'.ret.skipped = 0
     /\ (ev'.kind = "start" /\ ev'.ret = NoResult) => TallyExact'
     /\ (TallyExact /\ ~(ResultStep /\ ev'.res.status = "none")) =>
          IF ev'.ret # NoResult
          THEN /\ ev'.ret.success + ev'.ret.failed = Entries(batches)
               /\ ev'.ret.skipped = 0
          ELSE TallyExact']_vars

\* A pass whose first batch held two entries of one record and was answered
\* item by item with one success and one failure, all counted, has gone on
\* to its second batch.
C19_Witness ==
  /\ TallyExact
  /\ cur = 2
  /\ batches[1][1].task_id = batches[1][2].task_id
  /\ total.success = 1
  /\ total.failed = 1

\* ------------------------------------------------------------------- C16
\* The step just taken is one in which processBatch() raised: the round trip
\* failed, a payload could not be parsed, the response was malformed, or
\* the handling of a response item raised.
BatchRaised ==
  \/ ev'.kind \in {"transport", "payload", "response"}
  \/ ResultStep /\ ev'.threw

\* C16: a pass ends only by returning a SyncResult.  When processBatch()
\* raises, every item of the batch is counted as failed and nothing of the
\* batch as success, each entry of the batch still queued gets the
\* retry_count the pass read plus one, and sync() goes on to the next batch
\* or, after the last one, returns; a failure outcome is counted as one
\* failed and the batch goes on.
C16_IssuesBecomeCounts ==
  [][InFlight =>
       /\ pc' = "idle" => ev'.ret # NoResult
       /\ BatchRaised =>
            /\ FailedAfter = total.failed + Len(batches[cur])
            /\ SuccessAfter = total.success
            /\ \A k \in 1..Len(batches[cur]) : \A i \in 1..Len(queue') :
                 Key(queue'[i]) = Key(batches[cur][k]) =>
                   queue'[i].retry_count = batches[cur][k].retry_count + 1
            /\ IF LastBatch
               THEN pc' = "idle" /\ ev'.ret # NoResult
               ELSE pc' = "send" /\ cur' = cur + 1 /\ batches' = batches
       /\ (ResultStep /\ ev'.res.status = "failure") =>
            /\ FailedAfter = FailedBefore + 1
            /\ SuccessAfter = SuccessBefore
            /\ Len(results) > 1 => (pc' = "results" /\ results' = Tail(results))]_vars

\* The response to the first batch of a pass was malformed, its two items
\* were counted as failed, and the pass is about to send its second batch.
C16_Witness ==
  /\ ev.kind = "response"
  /\ pc = "send"
  /\ cur = 2
  /\ total = [success |-> 0, failed |-> 2]

\* ------------------------------------------------------------------- C17
\* C17: sync() is called only by a request whose connectivity probe returned
\* true; the probe changes neither the records nor the queue; and a request
\* whose probe returned false is answered 503 and is over: no pass starts
\* and no batch is built or sent.
C17_OfflineGate ==
  [][/\ ev'.kind = "start" => pc = "online"
     /\ (pc # "online" /\ pc' = "online") =>
          (ev'.kind = "probe" /\ ev'.online)
     /\ ev'.kind = "probe" => (tasks' = tasks /\ queue' = queue)
     /\ (ev'.kind = "probe" /\ ~ev'.online) =>
          /\ ev'.http = 503
          /\ pc' = "idle"
          /\ batches' = <<>>]_vars

\* A request found the remote unreachable while mutations were waiting in
\* the queue, and was turned away.
C17_Witness ==
  /\ ev.kind = "probe"
  /\ ~ev.online
  /\ Len(queue) >= 2
  /\ pc = "idle"

\* ------------------------------------------------------------------- C20
\* C20 (as claimed): whatever integer the batch size is, the batching loop
\* of sync() comes to an end: every round moves its index toward the end of
\* the queue read, and the batches built never outnumber the entries read.
C20_BatchingEnds ==
  [][ev'.kind = "batch" =>
       /\ idx' > idx
       /\ Len(batches') <= Len(queue)]_vars

\* ------------------------------------------------------------------- C15
\* The tables without the timestamps a pass stamps them with.
Untimed(tk) ==
  [id \in TaskIds |->
     IF tk[id] = NoTask THEN NoTask
     ELSE [title |-> tk[id].title, is_deleted |-> tk[id].is_deleted,
           sync_status |-> tk[id].sync_status, server_id |-> tk[id].server_id]]
QueueUntimed(q) ==
  [k \in 1..Len(q) |->
     [task_id |-> q[k].task_id, operation |-> q[k].operation,
      retry_count |-> q[k].retry_count, permanent_fail |-> q[k].permanent_fail]]

====
